---- MODULE Spec2Model ----
(***************************************************************************)
(* A model of src/src/js/model/index.js: the Lyra model object.  It holds  *)
(* the primitive registry (primitives, lookup), the two typed collections  *)
(* (pipelines, scales, getset), the listener table (onSignal, offSignal,   *)
(* register), the life cycle of the Vega view (parse, update), the export  *)
(* of the Vega specification (export, manipulators) and the signals.       *)
(***************************************************************************)
EXTENDS Integers, Sequences, FiniteSets, TLC

VARIABLES primitives, pipelines, scales, counter, call, foreign, Scene,
          view, views, listeners, parses, dragover, stash

regVars  == <<primitives, pipelines, scales, counter, foreign>>
viewVars == <<view, views, listeners, parses, dragover>>
vars     == <<primitives, pipelines, scales, counter, call, foreign, Scene,
              view, views, listeners, parses, dragover, stash>>

(***************************************************************************)
(* Bounds of the model.                                                    *)
(***************************************************************************)
\* primitives constructed by new Type(name)
MaxNew == 2
\* length of a typed collection
MaxLen == 2
\* signal definitions in the stash of the signal store
MaxStash == 3
\* parse() calls
MaxParses == 2
\* handlers in the listener table
MaxHandlers == 2
\* handlers in the listener table, where the table is taken alone
MaxTable == 4

(***************************************************************************)
(* Values.  A JavaScript object is a record whose ref is its identity; the *)
(* undefined value and the model object itself are records of the same     *)
(* shape, so that every value compares with every other.                   *)
(***************************************************************************)
Undefined == [ref |-> 0, _id |-> 0, type |-> "undefined", name |-> ""]
Model     == [ref |-> -1, _id |-> 0, type |-> "model", name |-> ""]

\* objects made by the callers, outside getset: each has its own _id
ExtIds  == {9}
ExtObjs == {[ref |-> 100 + i, _id |-> i, type |-> "Object", name |-> ""] : i \in ExtIds}

NewIds  == 1..MaxNew
Ids     == NewIds \cup ExtIds
TypeNames == {"a", "b"}

\* the value a call returned: one value, or an array of values
Value(v) == [kind |-> "value", v |-> v, l |-> <<>>]
Array(l) == [kind |-> "array", v |-> Undefined, l |-> l]
NoCall   == [kind |-> "none", v |-> Undefined, l |-> <<>>]
\* the exception a call threw
Thrown(e) == [kind |-> "throw", v |-> Undefined, l |-> <<e>>]

\* the argument of pipeline(id) / scale(id), by its JavaScript type
ArgUndefined == [t |-> "undefined", n |-> 0, s |-> "", o |-> Undefined]
ArgNumber(n) == [t |-> "number", n |-> n, s |-> "", o |-> Undefined]
ArgString(s) == [t |-> "string", n |-> 0, s |-> s, o |-> Undefined]
ArgObject(o) == [t |-> "object", n |-> 0, s |-> "", o |-> o]

\* the arguments of onSignal(name, handler) / offSignal(name, handler)
ArgSignal(name, handler) == [name |-> name, handler |-> handler]

(***************************************************************************)
(* The registry: primitives = {}, model.primitive, model.lookup.           *)
(***************************************************************************)
\* a store that keeps the first primitive set under an id
store_KeepsFirst(prims, id, primitive) ==
  [k \in (DOMAIN prims) \cup {id} |->
     IF k \in DOMAIN prims THEN prims[k] ELSE primitive]

\* primitives[id] = primitive
store(prims, id, primitive) ==
  [k \in (DOMAIN prims) \cup {id} |-> IF k = id THEN primitive ELSE prims[k]]

\* return primitives[id]: undefined for a key that was never set
lookupIn(prims, id) == IF id \in DOMAIN prims THEN prims[id] ELSE Undefined

lookup(id) == lookupIn(primitives, id)

\* new Type(name): the constructed primitive takes the next id and stores
\* itself in the model with model.primitive(this._id, this)
NewPrimitive(Type, name, cnt) ==
  [ref |-> 10 + cnt + 1, _id |-> cnt + 1, type |-> Type, name |-> name]

\* getset without its isNumber branch: a number is taken for an object
getset_NumberAppends(cache, id, Type) ==
  IF id.t = "undefined"
  THEN [cache |-> cache, prims |-> primitives, cnt |-> counter,
        ret |-> Array([i \in 1..Len(cache) |-> lookup(cache[i])])]
  ELSE IF id.t = "number"
  THEN [cache |-> Append(cache, id.n), prims |-> primitives, cnt |-> counter,
        ret |-> Value(lookup(id.n))]
  ELSE LET isNew == id.t = "string"
           obj   == IF isNew THEN NewPrimitive(Type, id.s, counter) ELSE id.o
       IN  [cache |-> Append(cache, obj._id),
            prims |-> IF isNew THEN store(primitives, obj._id, obj) ELSE primitives,
            cnt   |-> IF isNew THEN counter + 1 ELSE counter,
            ret   |-> Value(obj)]

\* getset as a get-or-create: an unknown number creates a primitive
getset_NumberCreates(cache, id, Type) ==
  IF id.t = "undefined"
  THEN [cache |-> cache, prims |-> primitives, cnt |-> counter,
        ret |-> Array([i \in 1..Len(cache) |-> lookup(cache[i])])]
  ELSE IF id.t = "number" /\ lookup(id.n) /= Undefined
  THEN [cache |-> cache, prims |-> primitives, cnt |-> counter,
        ret |-> Value(lookup(id.n))]
  ELSE LET isNew == id.t \in {"string", "number"}
           obj   == IF isNew THEN NewPrimitive(Type, id.s, counter) ELSE id.o
       IN  [cache |-> Append(cache, obj._id),
            prims |-> IF isNew THEN store(primitives, obj._id, obj) ELSE primitives,
            cnt   |-> IF isNew THEN counter + 1 ELSE counter,
            ret   |-> Value(obj)]

\* getset that finds a primitive of the same name before it constructs one
getset_ReusesName(cache, id, Type) ==
  IF id.t = "undefined"
  THEN [cache |-> cache, prims |-> primitives, cnt |-> counter,
        ret |-> Array([i \in 1..Len(cache) |-> lookup(cache[i])])]
  ELSE IF id.t = "number"
  THEN [cache |-> cache, prims |-> primitives, cnt |-> counter,
        ret |-> Value(lookup(id.n))]
  ELSE LET same  == {k \in DOMAIN primitives :
                       primitives[k].name = id.s /\ primitives[k].type = Type}
           isNew == id.t = "string" /\ same = {}
           obj   == IF isNew THEN NewPrimitive(Type, id.s, counter)
                    ELSE IF id.t = "string"
                         THEN primitives[CHOOSE k \in same : TRUE] ELSE id.o
       IN  [cache |-> IF id.t = "string" /\ ~isNew THEN cache
                      ELSE Append(cache, obj._id),
            prims |-> IF isNew THEN store(primitives, obj._id, obj) ELSE primitives,
            cnt   |-> IF isNew THEN counter + 1 ELSE counter,
            ret   |-> Value(obj)]

\* getset with cache.unshift in the place of cache.push
getset_Unshift(cache, id, Type) ==
  IF id.t = "undefined"
  THEN [cache |-> cache, prims |-> primitives, cnt |-> counter,
        ret |-> Array([i \in 1..Len(cache) |-> lookup(cache[i])])]
  ELSE IF id.t = "number"
  THEN [cache |-> cache, prims |-> primitives, cnt |-> counter,
        ret |-> Value(lookup(id.n))]
  ELSE LET isNew == id.t = "string"
           obj   == IF isNew THEN NewPrimitive(Type, id.s, counter) ELSE id.o
       IN  [cache |-> <<obj._id>> \o cache,
            prims |-> IF isNew THEN store(primitives, obj._id, obj) ELSE primitives,
            cnt   |-> IF isNew THEN counter + 1 ELSE counter,
            ret   |-> Value(obj)]

\* function getset(cache, id, Type): the collection, the registry and the
\* id counter after the call, and the value returned
getset(cache, id, Type) ==
  IF id.t = "undefined"
  THEN [cache |-> cache, prims |-> primitives, cnt |-> counter,
        ret |-> Array([i \in 1..Len(cache) |-> lookup(cache[i])])]
  ELSE IF id.t = "number"
  THEN [cache |-> cache, prims |-> primitives, cnt |-> counter,
        ret |-> Value(lookup(id.n))]
  ELSE LET isNew == id.t = "string"
           obj   == IF isNew THEN NewPrimitive(Type, id.s, counter) ELSE id.o
       IN  [cache |-> Append(cache, obj._id),
            prims |-> IF isNew THEN store(primitives, obj._id, obj) ELSE primitives,
            cnt   |-> IF isNew THEN counter + 1 ELSE counter,
            ret   |-> Value(obj)]

(***************************************************************************)
(* The calls of the registry and of the typed collections.  call records   *)
(* the last call made on the model: its name, its argument and the value   *)
(* it returned.  foreign records that pipeline or scale was handed an      *)
(* object that the registry does not hold under the object's own _id.      *)
(***************************************************************************)
Called(op, arg, val) == [op |-> op, arg |-> arg, val |-> val]

\* the objects a caller can hold: its own, and the primitives of the registry
Objects == ExtObjs \cup {primitives[k] : k \in DOMAIN primitives}

Registered(o) == lookup(o._id) = o

Appends == Len(pipelines) + Len(scales)

\* model.primitive = function(id, primitive)
primitive(id, obj) ==
  /\ primitives' = store(primitives, id, obj)
  /\ call' = Called("primitive", [ArgObject(obj) EXCEPT !.n = id], Value(Model))
  /\ UNCHANGED <<pipelines, scales, counter, foreign, Scene>>
  /\ UNCHANGED <<viewVars, stash>>

\* model.lookup = function(id)
Lookup(id) ==
  /\ call' = Called("lookup", ArgNumber(id), Value(lookup(id)))
  /\ UNCHANGED <<regVars, Scene, stash>>
  /\ UNCHANGED <<viewVars, stash>>

\* model.pipeline = function(id)
pipeline(id) ==
  LET r == getset(pipelines, id, "Pipeline")
  IN  /\ Len(r.cache) > Len(pipelines) => Appends < MaxLen
      /\ r.cnt <= MaxNew
      /\ pipelines' = r.cache
      /\ primitives' = r.prims
      /\ counter' = r.cnt
      /\ call' = Called("pipeline", id, r.ret)
      /\ foreign' = (foreign \/ (id.t = "object" /\ ~Registered(id.o)))
      /\ UNCHANGED <<scales, Scene>>
      /\ UNCHANGED <<viewVars, stash>>

\* scale on the cache of the pipelines
scale_OnPipelines(id) ==
  LET r == getset(pipelines, id, "Scale")
  IN  /\ Len(r.cache) > Len(pipelines) => Appends < MaxLen
      /\ r.cnt <= MaxNew
      /\ pipelines' = r.cache
      /\ primitives' = r.prims
      /\ counter' = r.cnt
      /\ call' = Called("scale", id, r.ret)
      /\ foreign' = (foreign \/ (id.t = "object" /\ ~Registered(id.o)))
      /\ UNCHANGED <<scales, Scene>>
      /\ UNCHANGED <<viewVars, stash>>

\* model.scale = function(id)
scale(id) ==
  LET r == getset(scales, id, "Scale")
  IN  /\ Len(r.cache) > Len(scales) => Appends < MaxLen
      /\ r.cnt <= MaxNew
      /\ scales' = r.cache
      /\ primitives' = r.prims
      /\ counter' = r.cnt
      /\ call' = Called("scale", id, r.ret)
      /\ foreign' = (foreign \/ (id.t = "object" /\ ~Registered(id.o)))
      /\ UNCHANGED <<pipelines, Scene>>
      /\ UNCHANGED <<viewVars, stash>>

Args == {ArgUndefined} \cup {ArgNumber(n) : n \in Ids}
        \cup {ArgString(s) : s \in TypeNames} \cup {ArgObject(o) : o \in Objects}

\* init that keeps the Scene the model has
init_Once ==
  LET scene == NewPrimitive("Scene", "", counter)
  IN  /\ counter < MaxNew
      /\ Scene' = IF Scene = Undefined THEN scene ELSE Scene
      /\ primitives' = IF Scene = Undefined
                       THEN store(primitives, scene._id, scene) ELSE primitives
      /\ counter' = IF Scene = Undefined THEN counter + 1 ELSE counter
      /\ call' = Called("init", ArgUndefined, Value(Model))
      /\ UNCHANGED <<pipelines, scales, foreign>>
      /\ UNCHANGED <<viewVars, stash>>

\* model.init = function(): new Scene().init(); the Scene is a primitive
\* and stores itself in the model as every primitive does
init ==
  LET scene == NewPrimitive("Scene", "", counter)
  IN  /\ counter < MaxNew
      /\ Scene' = scene
      /\ primitives' = store(primitives, scene._id, scene)
      /\ counter' = counter + 1
      /\ call' = Called("init", ArgUndefined, Value(Model))
      /\ UNCHANGED <<pipelines, scales, foreign>>
      /\ UNCHANGED <<viewVars, stash>>

(***************************************************************************)
(* The export of the Vega specification: model.export, model.manipulators. *)
(* A specification is an object with the Scene it was exported from, the   *)
(* clean flag of that export, and the arrays data, signals, predicates and *)
(* marks, each of which the object has or has not.                         *)
(***************************************************************************)
Absent     == [has |-> FALSE, l |-> <<>>]
Present(l) == [has |-> TRUE, l |-> l]

\* x || (x = [])
orEmpty(x) == IF x.has THEN x.l ELSE <<>>

\* the values handed to export as clean; the last four are neither true
\* nor undefined
Cleans == {"undefined", "true", "false", "null", "0", "1"}
Truthy(c) == c \in {"true", "1"}

\* clean = clean || clean === undefined
cleanOrUndefined(clean) ==
  IF Truthy(clean) THEN clean
  ELSE IF clean = "undefined" THEN "true" ELSE "false"

\* a data source of a specification
DataSource(name, src, k, clean) == [name |-> name, src |-> src, k |-> k, clean |-> clean]

NoSpec == [ref |-> 0, of |-> 0, clean |-> "undefined", data |-> Absent,
           signals |-> Absent, predicates |-> Absent, marks |-> Absent]

\* the specifications the callers hand to export as scene: an earlier export,
\* with the data sources it had then
SceneOverrides ==
  {[NoSpec EXCEPT !.ref = 201, !.clean = "true",
                  !.data = Present(<<DataSource("stale", 0, 0, "true")>>),
                  !.marks = Present(<<"scene">>)]}

\* Scene.export(clean): a new object on every call
SceneExport(scene, clean) ==
  [NoSpec EXCEPT !.ref = 50, !.of = scene._id, !.clean = clean,
                 !.marks = Present(<<"scene">>)]

\* Scene.manipulators(): a new object on every call, with the signals the
\* Scene defines, if it defines any
SceneManipulators(scene, signals) ==
  [NoSpec EXCEPT !.ref = 50, !.of = scene._id, !.clean = "manipulators",
                 !.signals = signals, !.marks = Present(<<"scene">>)]

\* the number of data sources a pipeline exports: none, one or two
Fragments(prim) ==
  IF prim.name = "a" THEN 1 ELSE IF prim.name = "b" THEN 2 ELSE 0

\* lookup(id).export(clean): the data sources of one pipeline
PipelineExport(prim, clean) ==
  [k \in 1..Fragments(prim) |-> DataSource("source", prim._id, k, clean)]

\* every id of the collection resolves: lookup(id).export is a call on an object
Resolves(cache) == \A i \in 1..Len(cache) : lookup(cache[i]) /= Undefined

\* the reduce that puts every pipeline first, in the place of the last
RECURSIVE reduce_Prepend(_, _)
reduce_Prepend(cache, clean) ==
  IF cache = <<>> THEN <<>>
  ELSE PipelineExport(lookup(cache[Len(cache)]), clean)
         \o reduce_Prepend(SubSeq(cache, 1, Len(cache) - 1), clean)

\* pipelines.reduce(function(arr, id) {...}, [])
RECURSIVE reduce(_, _)
reduce(cache, clean) ==
  IF cache = <<>> THEN <<>>
  ELSE reduce(SubSeq(cache, 1, Len(cache) - 1), clean)
         \o PipelineExport(lookup(cache[Len(cache)]), clean)

Returned(spec) == [kind |-> "spec", spec |-> spec]

\* export with clean = clean || true
exportOf_AlwaysClean(scene, clean) ==
  LET spec == IF scene.ref /= 0 THEN scene ELSE SceneExport(Scene, "true")
  IN  IF (scene.ref = 0 /\ Scene = Undefined) \/ ~Resolves(pipelines)
      THEN Thrown("TypeError")
      ELSE Returned([spec EXCEPT !.data = Present(reduce(pipelines, "true"))])

\* model.export = function(scene, clean): the specification returned, or
\* the TypeError of a call on null (model.Scene) or on undefined (lookup(id))
exportOf(scene, clean) ==
  LET c    == cleanOrUndefined(clean)
      spec == IF scene.ref /= 0 THEN scene ELSE SceneExport(Scene, c)
  IN  IF (scene.ref = 0 /\ Scene = Undefined) \/ ~Resolves(pipelines)
      THEN Thrown("TypeError")
      ELSE Returned([spec EXCEPT !.data = Present(reduce(pipelines, c))])

ArgExport(scene, clean) == [scene |-> scene, clean |-> clean]

\* model.export = function(scene, clean), called by a caller
export(scene, clean) ==
  /\ call' = Called("export", ArgExport(scene, clean), exportOf(scene, clean))
  /\ UNCHANGED <<regVars, Scene, stash>>
  /\ UNCHANGED viewVars

(***************************************************************************)
(* The signals.  stash holds the signal definitions of the signal store in *)
(* the order they were stashed; a definition has its position _idx, which  *)
(* names it here, and its value init.                                      *)
(***************************************************************************)
Idxs == 1..MaxStash
SignalValues == {"v1"}
NoValue == "undefined"
Signal(idx, value) == [_idx |-> idx, init |-> value]

Stashed == {stash[i]._idx : i \in 1..Len(stash)}

\* the signal store stashes a definition: sg.init(name, value)
stashSignal(idx) ==
  /\ idx \notin Stashed
  /\ stash' = Append(stash, Signal(idx, "v0"))
  /\ call' = Called("stash", ArgNumber(idx), Value(Undefined))
  /\ UNCHANGED <<regVars, Scene>>
  /\ UNCHANGED viewVars

\* sg.value(name) returns the value of the signal; sg.value(name, value)
\* sets it and returns sg
sgValue(name, value) ==
  LET i == CHOOSE i \in 1..Len(stash) : stash[i]._idx = name
  IN  IF value = NoValue
      THEN [stash |-> stash, ret |-> stash[i].init]
      ELSE [stash |-> [stash EXCEPT ![i].init = value], ret |-> "sg"]

ArgValue(name, value) == [name |-> name, value |-> value]
String(s) == [kind |-> "string", s |-> s]

\* model.signal = function()
signal(name, value) ==
  LET r == sgValue(name, value)
  IN  /\ name \in Stashed
      /\ stash' = r.stash
      /\ call' = Called("signal", ArgValue(name, value),
                        IF r.ret = "sg" THEN Value(Model) ELSE String(r.ret))
      /\ UNCHANGED <<regVars, Scene>>
      /\ UNCHANGED viewVars

\* the definitions in the order they were stashed
sort_AsStashed(l) == l

\* dl.vals(sg.stash()).sort(idx): ascending by _idx
RECURSIVE sort(_)
sort(l) ==
  IF l = <<>> THEN <<>>
  ELSE LET x    == l[Len(l)]
           rest == sort(SubSeq(l, 1, Len(l) - 1))
           n    == Cardinality({i \in 1..Len(rest) : rest[i]._idx <= x._idx})
       IN  SubSeq(rest, 1, n) \o <<x>> \o SubSeq(rest, n + 1, Len(rest))

\* the signals lists the Scene hands over with Scene.manipulators()
SceneSignals ==
  {Absent, Present(<<>>)} \cup {Present(<<Signal(i, "v0")>>) : i \in Idxs}

\* model.manipulators = function(): the specification returned, or the
\* TypeError of model.Scene.manipulators() on null or of export
manipulatorsOf(signals) ==
  IF Scene = Undefined THEN Thrown("TypeError")
  ELSE LET exported == exportOf(SceneManipulators(Scene, signals), "false")
           spec     == exported.spec
       IN  IF exported.kind = "throw" THEN exported
           ELSE Returned(
                  [spec EXCEPT
                     !.data = Present(orEmpty(spec.data)
                                \o <<DataSource("bubble_cursor", 0, 0, ""),
                                     DataSource("dummy_data_line", 0, 0, ""),
                                     DataSource("dummy_data_area", 0, 0, "")>>),
                     !.signals = Present(orEmpty(spec.signals) \o sort(stash)),
                     !.predicates = Present(orEmpty(spec.predicates) \o <<"cell">>),
                     !.marks = Present(orEmpty(spec.marks) \o <<"bubble_cursor">>)])

\* model.manipulators = function(), called by a caller
manipulators(signals) ==
  /\ call' = Called("manipulators", [signals |-> signals], manipulatorsOf(signals))
  /\ UNCHANGED <<regVars, Scene, stash>>
  /\ UNCHANGED viewVars

(***************************************************************************)
(* The view and the listener table.  views[v] is the v-th view the engine  *)
(* constructed: the number of destroy() calls made on it and, for each     *)
(* signal, the handlers registered on it, and the number of views that     *)
(* were not destroyed when it was constructed.  parses[p] is the p-th call *)
(* of parse: the state of the two promises it made, and the number of      *)
(* views that were not destroyed when its specification went to the        *)
(* engine, whether a callback of the engine was pending at the call        *)
(* (overlap) and whether every earlier promise was settled at the call     *)
(* (awaited).  parse returns the promise .then(model.update) derives from  *)
(* the promise of the executor, and a reaction settles it after the        *)
(* promise of the executor settled:                                        *)
(*   "pending"    neither promise is settled                               *)
(*   "resolved"   the executor's is resolved with view, the returned one   *)
(*                is pending                                               *)
(*   "failed"     the executor's is rejected with err, the returned one    *)
(*                is pending                                               *)
(*   "fulfilled"  the returned promise is fulfilled                        *)
(*   "rejected"   the returned promise is rejected with err                *)
(***************************************************************************)
Names    == {"x", "y"}
Handlers == {"h1"}
\* a second handler: where the model has a view, it is handed to offSignal
\* and was never registered
Strangers == {"h2"}
NoHandler == "undefined"
SELECTED == "lyra_selected"
SelectHandler == "select"
ViewSignals == Names \cup {SELECTED}
Errors   == {"err1", "err2"}
Els      == {"undefined"}

\* the views constructed and not destroyed
Live(vs) == {v \in 1..Len(vs) : vs[v].destroyed = 0}

\* chart({el: el})
NewView(el) ==
  [el |-> el, destroyed |-> 0, handlers |-> [n \in ViewSignals |-> <<>>],
   liveBefore |-> Cardinality(Live(views))]

Promise(p) == [kind |-> "promise", v |-> Undefined, l |-> <<p>>]

\* the parses whose promise is not settled, and those among them whose
\* callback the engine has not called
Settled(p) == parses[p].state \in {"fulfilled", "rejected"}
InFlight   == {p \in 1..Len(parses) : ~Settled(p)}
Pending    == {p \in 1..Len(parses) : parses[p].state = "pending"}

\* listeners[name] || (listeners[name] = []): the table maps a name that
\* has no list yet to the empty list, which is what every read makes of it
listenerOf(ls, name) == IF name \in DOMAIN ls THEN ls[name] ELSE <<>>

\* the handlers of a list that offSignal / view.offSignal keeps
RECURSIVE without(_, _)
without(l, handler) ==
  IF l = <<>> THEN <<>>
  ELSE IF handler = NoHandler \/ l[Len(l)] = handler
       THEN without(SubSeq(l, 1, Len(l) - 1), handler)
       ELSE Append(without(SubSeq(l, 1, Len(l) - 1), handler), l[Len(l)])

\* The view of the engine: view.onSignal(name, handler), view.offSignal(name,
\* handler), view.update() and view.destroy().  handlers holds the bindings
\* that a change of a signal calls; a view that was destroyed is torn down
\* and has none, and update() renders again and leaves them as they are.
viewOnSignal(v, name, handler) ==
  IF v.destroyed > 0 THEN v
  ELSE [v EXCEPT !.handlers[name] = Append(@, handler)]
viewOffSignal(v, name, handler) ==
  [v EXCEPT !.handlers[name] = without(@, handler)]
viewUpdate(v)  == v
viewDestroy(v) ==
  [v EXCEPT !.destroyed = @ + 1, !.handlers = [n \in ViewSignals |-> <<>>]]

\* register() without its loop over the listener table
register_NoReplay(v) ==
  [v EXCEPT !.handlers[SELECTED] = Append(@, SelectHandler)]

\* function register(): the handlers of model.view after the selection
\* handler and every handler of the listener table were registered on it
register(v) ==
  [v EXCEPT !.handlers =
     [n \in ViewSignals |->
        v.handlers[n]
          \o (IF n = SELECTED THEN <<SelectHandler>> ELSE <<>>)
          \o listenerOf(listeners, n)]]

\* parse without model.view.destroy()
parse_NoDestroy(el) ==
  LET started == [state |-> "pending", el |-> IF el = "undefined" THEN "#vis" ELSE el,
                  err |-> "", view |-> 0,
                  overlap |-> Pending /= {}, awaited |-> InFlight = {},
                  liveAtParse |-> Cardinality(Live(views))]
  IN  /\ Len(parses) < MaxParses
      /\ parses' = Append(parses,
           IF manipulatorsOf(Absent).kind = "throw"
           THEN [started EXCEPT !.state = "failed", !.err = "TypeError"]
           ELSE started)
      /\ call' = Called("parse", ArgUndefined, Promise(Len(parses) + 1))
      /\ UNCHANGED <<view, views, listeners, dragover>>
      /\ UNCHANGED <<regVars, Scene, stash>>

\* parse that destroys model.view after it handed the specification over
parse_DestroyLate(el) ==
  LET destroyed == IF view /= 0 THEN [views EXCEPT ![view] = viewDestroy(@)]
                   ELSE views
      started   == [state |-> "pending", el |-> IF el = "undefined" THEN "#vis" ELSE el,
                    err |-> "", view |-> 0,
                    overlap |-> Pending /= {}, awaited |-> InFlight = {},
                    liveAtParse |-> Cardinality(Live(views))]
  IN  /\ Len(parses) < MaxParses
      /\ views' = destroyed
      /\ parses' = Append(parses,
           IF manipulatorsOf(Absent).kind = "throw"
           THEN [started EXCEPT !.state = "failed", !.err = "TypeError"]
           ELSE started)
      /\ call' = Called("parse", ArgUndefined, Promise(Len(parses) + 1))
      /\ UNCHANGED <<view, listeners, dragover>>
      /\ UNCHANGED <<regVars, Scene, stash>>

\* model.parse = function(el), up to the call of vg.parse.spec; where
\* model.manipulators() throws in the executor, as it does before init(),
\* the promise of the executor is rejected with that TypeError, and the
\* promise parse returns is pending until its reaction ran
parse(el) ==
  LET destroyed == IF view /= 0 THEN [views EXCEPT ![view] = viewDestroy(@)]
                   ELSE views
      started   == [state |-> "pending", el |-> IF el = "undefined" THEN "#vis" ELSE el,
                    err |-> "", view |-> 0,
                    overlap |-> Pending /= {}, awaited |-> InFlight = {},
                    liveAtParse |-> Cardinality(Live(destroyed))]
  IN  /\ Len(parses) < MaxParses
      /\ views' = destroyed
      /\ parses' = Append(parses,
           IF manipulatorsOf(Absent).kind = "throw"
           THEN [started EXCEPT !.state = "failed", !.err = "TypeError"]
           ELSE started)
      /\ call' = Called("parse", ArgUndefined, Promise(Len(parses) + 1))
      /\ UNCHANGED <<view, listeners, dragover>>
      /\ UNCHANGED <<regVars, Scene, stash>>

\* the callback without its else: it rejects and goes on to make the view
parseError_FallsThrough(p, err) ==
  LET v == Len(views) + 1
  IN  /\ p \in 1..Len(parses) /\ parses[p].state = "pending"
      /\ view' = v
      /\ views' = Append(views, register(NewView(parses[p].el)))
      /\ dragover' = TRUE
      /\ parses' = [parses EXCEPT ![p].state = "failed", ![p].err = err]
      /\ call' = Called("callback", ArgString(err), Value(Undefined))
      /\ UNCHANGED listeners
      /\ UNCHANGED <<regVars, Scene, stash>>

\* the callback handed to vg.parse.spec, called with an error: reject(err)
\* rejects the promise of the executor
parseError(p, err) ==
  /\ p \in 1..Len(parses) /\ parses[p].state = "pending"
  /\ parses' = [parses EXCEPT ![p].state = "failed", ![p].err = err]
  /\ call' = Called("callback", ArgString(err), Value(Undefined))
  /\ UNCHANGED <<view, views, listeners, dragover>>
  /\ UNCHANGED <<regVars, Scene, stash>>

\* the callback with resolve(model.view) and no .then(model.update) behind it
parseChart_NoThen(p) ==
  LET v == Len(views) + 1
  IN  /\ p \in 1..Len(parses) /\ parses[p].state = "pending"
      /\ view' = v
      /\ views' = Append(views, register(NewView(parses[p].el)))
      /\ dragover' = TRUE
      /\ parses' = [parses EXCEPT ![p].state = "fulfilled", ![p].view = v]
      /\ call' = Called("callback", ArgUndefined, Value(Undefined))
      /\ UNCHANGED listeners
      /\ UNCHANGED <<regVars, Scene, stash>>

\* the callback that registers the handlers before model.view is the new view
parseChart_RegisterFirst(p) ==
  LET v == Len(views) + 1
      registered == IF view /= 0 THEN [views EXCEPT ![view] = register(@)] ELSE views
  IN  /\ p \in 1..Len(parses) /\ parses[p].state = "pending"
      /\ view' = v
      /\ views' = Append(registered, NewView(parses[p].el))
      /\ dragover' = TRUE
      /\ parses' = [parses EXCEPT ![p].state = "resolved", ![p].view = v]
      /\ call' = Called("callback", ArgUndefined, Value(Undefined))
      /\ UNCHANGED listeners
      /\ UNCHANGED <<regVars, Scene, stash>>

\* the callback handed to vg.parse.spec, called with a chart
parseChart(p) ==
  LET v == Len(views) + 1
  IN  /\ p \in 1..Len(parses) /\ parses[p].state = "pending"
      /\ view' = v
      /\ views' = Append(views, register(NewView(parses[p].el)))
      /\ dragover' = TRUE
      /\ parses' = [parses EXCEPT ![p].state = "resolved", ![p].view = v]
      /\ call' = Called("callback", ArgUndefined, Value(Undefined))
      /\ UNCHANGED listeners
      /\ UNCHANGED <<regVars, Scene, stash>>

\* .then(model.update): the reaction of the promise parse returned
thenUpdate(p) ==
  /\ p \in 1..Len(parses) /\ parses[p].state = "resolved"
  /\ views' = [views EXCEPT ![view] = viewUpdate(@)]
  /\ parses' = [parses EXCEPT ![p].state = "fulfilled"]
  /\ call' = Called("then", ArgNumber(view), Value(Model))
  /\ UNCHANGED <<view, listeners, dragover>>
  /\ UNCHANGED <<regVars, Scene, stash>>

\* .then(model.update) has no handler for a rejection: the reaction of a
\* rejected promise rejects the promise parse returned with the same error,
\* and calls nothing
thenReject(p) ==
  /\ p \in 1..Len(parses) /\ parses[p].state = "failed"
  /\ parses' = [parses EXCEPT ![p].state = "rejected"]
  /\ UNCHANGED <<view, views, listeners, dragover, call>>
  /\ UNCHANGED <<regVars, Scene, stash>>

\* model.update = function(), called by a caller
update ==
  /\ views' = IF view /= 0 THEN [views EXCEPT ![view] = viewUpdate(@)] ELSE views
  /\ call' = Called("update", ArgNumber(view),
                    IF view /= 0 THEN Value(Model) ELSE Thrown("TypeError"))
  /\ UNCHANGED <<view, listeners, parses, dragover>>
  /\ UNCHANGED <<regVars, Scene, stash>>

\* a call of offSignal, with the list the table held for the name at the call
CalledOn(op, arg, val, before) ==
  [op |-> op, arg |-> arg, val |-> val, before |-> before]

\* the number of handlers in the listener table
TableSize(ls) ==
  LET RECURSIVE sum(_)
      sum(S) == IF S = {} THEN 0
                ELSE LET n == CHOOSE n \in S : TRUE
                     IN  Len(ls[n]) + sum(S \ {n})
  IN  sum(DOMAIN ls)

\* onSignal that only fills the listener table
onSignal_NoMirror(name, handler) ==
  /\ listeners' = store(listeners, name, Append(listenerOf(listeners, name), handler))
  /\ call' = Called("onSignal", ArgSignal(name, handler), Value(Model))
  /\ UNCHANGED <<view, views, parses, dragover>>
  /\ UNCHANGED <<regVars, Scene, stash>>

\* model.onSignal = function(name, handler)
onSignal(name, handler) ==
  /\ listeners' = store(listeners, name, Append(listenerOf(listeners, name), handler))
  /\ views' = IF view /= 0
              THEN [views EXCEPT ![view] = viewOnSignal(@, name, handler)]
              ELSE views
  /\ call' = Called("onSignal", ArgSignal(name, handler), Value(Model))
  /\ UNCHANGED <<view, parses, dragover>>
  /\ UNCHANGED <<regVars, Scene, stash>>

\* offSignal that only empties the listener table
offSignal_NoMirror(name, handler) ==
  /\ listeners' = store(listeners, name, without(listenerOf(listeners, name), handler))
  /\ call' = CalledOn("offSignal", ArgSignal(name, handler), Value(Model),
                      listenerOf(listeners, name))
  /\ UNCHANGED <<view, views, parses, dragover>>
  /\ UNCHANGED <<regVars, Scene, stash>>

\* offSignal that removes the first entry that is the handler, and stops
offSignal_FirstOnly(name, handler) ==
  LET l == listenerOf(listeners, name)
      i == IF \E k \in 1..Len(l) : handler = NoHandler \/ l[k] = handler
           THEN CHOOSE k \in 1..Len(l) :
                  /\ handler = NoHandler \/ l[k] = handler
                  /\ \A j \in 1..(k - 1) : handler /= NoHandler /\ l[j] /= handler
           ELSE 0
  IN  /\ listeners' = store(listeners, name,
                             IF i = 0 THEN l
                             ELSE SubSeq(l, 1, i - 1) \o SubSeq(l, i + 1, Len(l)))
      /\ views' = IF view /= 0
                  THEN [views EXCEPT ![view] = viewOffSignal(@, name, handler)]
                  ELSE views
      /\ call' = CalledOn("offSignal", ArgSignal(name, handler), Value(Model),
                          listenerOf(listeners, name))
      /\ UNCHANGED <<view, parses, dragover>>
      /\ UNCHANGED <<regVars, Scene, stash>>

\* model.offSignal = function(name, handler)
offSignal(name, handler) ==
  /\ listeners' = store(listeners, name, without(listenerOf(listeners, name), handler))
  /\ views' = IF view /= 0
              THEN [views EXCEPT ![view] = viewOffSignal(@, name, handler)]
              ELSE views
  /\ call' = CalledOn("offSignal", ArgSignal(name, handler), Value(Model),
                      listenerOf(listeners, name))
  /\ UNCHANGED <<view, parses, dragover>>
  /\ UNCHANGED <<regVars, Scene, stash>>

\* the engine changes a signal of a view that was not destroyed and calls
\* the handlers registered on that view for the signal
signalChange(v, name) ==
  /\ v \in 1..Len(views) /\ views[v].destroyed = 0
  /\ call' = Called("signalChange", [ArgString(name) EXCEPT !.n = v],
                    Array(views[v].handlers[name]))
  /\ UNCHANGED <<view, views, listeners, parses, dragover>>
  /\ UNCHANGED <<regVars, Scene, stash>>

Init ==
  /\ primitives = <<>>
  /\ pipelines = <<>>
  /\ scales = <<>>
  /\ counter = 0
  /\ call = Called("none", ArgUndefined, NoCall)
  /\ foreign = FALSE
  /\ Scene = Undefined
  /\ view = 0
  /\ views = <<>>
  /\ listeners = [n \in Names |-> <<>>]
  /\ parses = <<>>
  /\ dragover = FALSE
  /\ stash = <<>>

\* the callers store their own objects, under any id
NextRegistry ==
  \/ \E id \in Ids, obj \in ExtObjs : primitive(id, obj)
  \/ \E id \in Ids : Lookup(id)
  \/ \E id \in Args : pipeline(id)
  \/ \E id \in Args : scale(id)

SpecRegistry == Init /\ [][NextRegistry]_vars

\* the application calls init() once, when it starts
NextView ==
  \/ Scene = Undefined /\ init
  \/ \E el \in Els : parse(el)
  \/ \E p \in 1..MaxParses, err \in Errors : parseError(p, err)
  \/ \E p \in 1..MaxParses : parseChart(p)
  \/ \E p \in 1..MaxParses : thenUpdate(p)
  \/ \E p \in 1..MaxParses : thenReject(p)
  \/ update
  \/ /\ TableSize(listeners) < MaxHandlers
     /\ \E name \in Names, handler \in Handlers : onSignal(name, handler)
  \/ \E name \in Names, handler \in Handlers \cup Strangers \cup {NoHandler} :
       offSignal(name, handler)
  \/ \E v \in 1..MaxParses, name \in Names : signalChange(v, name)

SpecView == Init /\ [][NextView]_vars

\* parse and what follows it: the engine calls back for every specification
\* it was handed, and the reaction of a resolved or rejected promise runs
NextParse ==
  \/ Scene = Undefined /\ init
  \/ \E el \in Els : parse(el)
  \/ \E p \in 1..MaxParses, err \in Errors : parseError(p, err)
  \/ \E p \in 1..MaxParses : parseChart(p)
  \/ \E p \in 1..MaxParses : thenUpdate(p)
  \/ \E p \in 1..MaxParses : thenReject(p)
  \/ update
  \/ /\ TableSize(listeners) < MaxHandlers
     /\ \E name \in Names, handler \in Handlers : onSignal(name, handler)

SpecParseFair ==
  /\ Init /\ [][NextParse]_vars
  /\ \A p \in 1..MaxParses :
       /\ WF_vars(parseChart(p) \/ \E err \in Errors : parseError(p, err))
       /\ WF_vars(thenUpdate(p))
       /\ WF_vars(thenReject(p))

\* the listener table alone, before any view: the callers register and
\* unregister two handlers
NextListeners ==
  \/ /\ TableSize(listeners) < MaxTable
     /\ \E name \in Names, handler \in Handlers \cup Strangers :
          onSignal(name, handler)
  \/ \E name \in Names, handler \in Handlers \cup Strangers \cup {NoHandler} :
       offSignal(name, handler)

SpecListeners == Init /\ [][NextListeners]_vars

\* the handlers of the callers that register while a parse is in flight:
\* the p-th of them is handed to onSignal only while the callback of the p-th
\* parse is pending, so where it stands in the table it was registered there
InFlightHandlers == <<"f1", "f2", "f3">>
InFlightHandler(p) == InFlightHandlers[p]

\* parse with callers that register h1 while no callback is pending and the
\* handler of a parse while its callback is pending, and any calls of
\* update, offSignal, the callback and the reactions in between; parse is
\* called while no callback is pending, before or after the reaction of the
\* parse before it
NextInFlight ==
  \/ Scene = Undefined /\ init
  \/ Pending = {} /\ \E el \in Els : parse(el)
  \/ \E p \in 1..MaxParses, err \in Errors : parseError(p, err)
  \/ \E p \in 1..MaxParses : parseChart(p)
  \/ \E p \in 1..MaxParses : thenUpdate(p)
  \/ \E p \in 1..MaxParses : thenReject(p)
  \/ update
  \/ /\ TableSize(listeners) < MaxHandlers /\ Pending = {}
     /\ \E name \in Names, handler \in Handlers : onSignal(name, handler)
  \/ /\ TableSize(listeners) < MaxHandlers
     /\ \E name \in Names, p \in Pending : onSignal(name, InFlightHandler(p))
  \/ \E name \in Names, handler \in Handlers \cup {NoHandler} :
       offSignal(name, handler)

SpecInFlight == Init /\ [][NextInFlight]_vars

\* the signals and the specification with the manipulators
NextSignals ==
  \/ Scene = Undefined /\ init
  \/ \E idx \in Idxs : stashSignal(idx)
  \/ \E name \in Idxs, value \in {NoValue} \cup SignalValues : signal(name, value)
  \/ \E signals \in SceneSignals : manipulators(signals)
  \/ \E n \in TypeNames : pipeline(ArgString(n))

SpecSignals == Init /\ [][NextSignals]_vars

\* the export of the specification: init() at any time, pipelines made by
\* name or from objects of the callers, and export
NextExport ==
  \/ init
  \/ \E id \in {ArgString(n) : n \in TypeNames} \cup {ArgObject(o) : o \in ExtObjs} :
       pipeline(id)
  \/ \E scene \in {NoSpec} \cup SceneOverrides, clean \in Cleans : export(scene, clean)

SpecExport == Init /\ [][NextExport]_vars

\* every operation of the model beside the others: init() is called once,
\* the two collections grow by names and by objects of the callers, and the
\* signal store, the listener table and the view are taken through their
\* first signal, first handler and first parse
NextFrame ==
  \/ Scene = Undefined /\ init
  \/ \E id \in {ArgString(n) : n \in TypeNames} \cup {ArgObject(o) : o \in ExtObjs} :
       pipeline(id)
  \/ \E id \in {ArgString(n) : n \in TypeNames} \cup {ArgObject(o) : o \in ExtObjs} :
       scale(id)
  \/ \E scene \in {NoSpec} \cup SceneOverrides, clean \in {"undefined", "false"} :
       export(scene, clean)
  \/ manipulators(Absent)
  \/ stash = <<>> /\ \E idx \in Idxs : stashSignal(idx)
  \/ \E name \in Idxs, value \in {NoValue} \cup SignalValues : signal(name, value)
  \/ parses = <<>> /\ \E el \in Els : parse(el)
  \/ \E p \in 1..MaxParses, err \in Errors : parseError(p, err)
  \/ \E p \in 1..MaxParses : parseChart(p)
  \/ \E p \in 1..MaxParses : thenUpdate(p)
  \/ \E p \in 1..MaxParses : thenReject(p)
  \/ update
  \/ /\ TableSize(listeners) = 0
     /\ \E name \in Names, handler \in Handlers : onSignal(name, handler)
  \/ \E name \in Names, handler \in Handlers \cup {NoHandler} : offSignal(name, handler)

SpecFrame == Init /\ [][NextFrame]_vars

(***************************************************************************)
(* The view and the listener table: C1 to C4, under SpecView.              *)
(***************************************************************************)
\* the number of times handler h stands in the list l
Count(l, h) == Cardinality({i \in 1..Len(l) : l[i] = h})

\* no parse was called while a callback of the engine was pending
NoOverlap == \A p \in 1..Len(parses) : ~parses[p].overlap

\* every parse was called after the promises of the earlier ones settled
Awaited == \A p \in 1..Len(parses) : parses[p].awaited

ViewIsLive == view /= 0 /\ views[view].destroyed = 0

\* C1 as stated: at most one view is constructed and not destroyed, also
\* when parse is called while the callback of an earlier parse is pending.
C1_AtMostOneLiveView == Cardinality(Live(views)) <= 1

\* C1, amended: at most one view is constructed and not destroyed, as long
\* as no parse was called while the callback of an earlier one was pending.
C1_AtMostOneLiveViewNoOverlap == NoOverlap => Cardinality(Live(views)) <= 1

\* witness of C1: a second view replaced the first, which was destroyed
C1_Witness ==
  /\ NoOverlap
  /\ Len(views) = 2
  /\ Live(views) = {2}
  /\ views[1].destroyed = 1

\* C2: when every parse is awaited before the next one is called, the view
\* of the model is destroyed before the specification goes to the engine
\* and before the next view is constructed: no view is left undestroyed at
\* either moment.
C2_DestroyBeforeParse ==
  Awaited => /\ \A p \in 1..Len(parses) : parses[p].liveAtParse = 0
             /\ \A v \in 1..Len(views) : views[v].liveBefore = 0

\* witness of C2: a parse was called on a live view and made the next view
C2_Witness ==
  /\ Awaited
  /\ Len(parses) = 2 /\ parses[2].state = "fulfilled" /\ parses[2].view = 2
  /\ parses[1].view = 1
  /\ views[1].destroyed = 1 /\ views[2].destroyed = 0

\* C3: when the callback of a parse constructs a view, every handler of the
\* listener table is registered on that view for its name, as often as it
\* stands in the table; and a change of a signal on the live view of the
\* model calls every handler the table holds for that signal.
C3_DeferredListenersReplayed ==
  [][/\ Len(views') > Len(views)
          => \A n \in Names, h \in Handlers :
               Count(views'[view'].handlers[n], h) = Count(listeners[n], h)
     /\ (call'.op = "signalChange" /\ call'.arg.n = view')
          => \A h \in Handlers :
               Count(listeners'[call'.arg.s], h) > 0
                 => Count(call'.val.l, h) > 0]_vars

\* witness of C3: the first view was just constructed, and carries a
\* handler that was registered when the model had no view
C3_Witness ==
  /\ call.op = "callback"
  /\ Len(views) = 1 /\ view = 1
  /\ \E p \in 1..Len(parses) : parses[p].state = "resolved" /\ parses[p].view = 1
  /\ listeners["x"] = <<"h1">>
  /\ views[1].handlers["x"] = <<"h1">>

\* the number of times a change of signal n calls h, over the live views
RECURSIVE Bindings(_, _, _)
Bindings(S, n, h) ==
  IF S = {} THEN 0
  ELSE LET v == CHOOSE v \in S : TRUE
       IN  Count(views[v].handlers[n], h) + Bindings(S \ {v}, n, h)

\* C4: when every parse is awaited, a handler that stands once in the
\* listener table for a name is registered once on the live view of the
\* model and on no other undestroyed view: a change of the signal calls it
\* once.
C4_NoListenerFiresTwice ==
  Awaited =>
    \A n \in Names, h \in Handlers :
      Count(listeners[n], h) = 1
        => /\ ViewIsLive => Count(views[view].handlers[n], h) = 1
           /\ Bindings(Live(views), n, h) = (IF ViewIsLive THEN 1 ELSE 0)
           /\ (call.op = "signalChange" /\ call.arg.s = n /\ call.arg.n = view
                 /\ ViewIsLive)
                => Count(call.val.l, h) = 1

\* witness of C4: after two parses a change of x called h1 once
C4_Witness ==
  /\ Awaited
  /\ Len(views) = 2 /\ view = 2 /\ ViewIsLive
  /\ parses[2].state = "fulfilled"
  /\ listeners["x"] = <<"h1">>
  /\ call.op = "signalChange" /\ call.arg.s = "x" /\ call.arg.n = 2
  /\ call.val.l = <<"h1">>

(***************************************************************************)
(* The registry and the typed collections: C6 to C10, under SpecRegistry.  *)
(***************************************************************************)
IsPrefix(s, t) == Len(s) <= Len(t) /\ SubSeq(t, 1, Len(s)) = s

IsCollectionCall(c) == c.op \in {"pipeline", "scale"}

\* C6 as stated: every id of the pipelines and of the scales collection
\* resolves through lookup to a primitive of the registry, whatever the
\* calls of primitive, pipeline and scale were.
C6_NoDanglingId == Resolves(pipelines) /\ Resolves(scales)

\* C6, amended: every id of the two collections resolves through lookup,
\* as long as every object handed to pipeline or scale was, at the call, held
\* by the registry under its own _id.
C6_NoDanglingIdOfRegistered == ~foreign => (Resolves(pipelines) /\ Resolves(scales))

\* witness of C6: an object of the registry and a named primitive were appended
C6_Witness ==
  /\ ~foreign
  /\ Len(pipelines) = 2
  /\ call.op = "pipeline" /\ call.arg.t = "object"
  /\ \E i \in 1..2 : lookup(pipelines[i]).type = "Pipeline"

\* C7: pipeline(n) and scale(n) with a number n return lookup(n) and leave
\* both collections and the registry as they were, whether n is registered
\* or not.
C7_NumberNeverCreates ==
  [][(IsCollectionCall(call') /\ call'.arg.t = "number")
       => /\ call'.val = Value(lookup(call'.arg.n))
          /\ UNCHANGED <<pipelines, scales, primitives>>]_vars

\* witness of C7: pipeline(n) was called with an n that is not registered,
\* on a collection that is not empty
C7_Witness ==
  /\ call.op = "pipeline" /\ call.arg.t = "number"
  /\ call.arg.n \notin DOMAIN primitives
  /\ call.val = Value(Undefined)
  /\ Len(pipelines) > 0

\* C8: pipeline(name) and scale(name) with a string construct a primitive
\* that did not exist, append its id and nothing else at the end of the
\* collection of the call, and return it, also when the name was used
\* before.
C8_StringAlwaysCreates ==
  [][(IsCollectionCall(call') /\ call'.arg.t = "string")
       => LET obj  == call'.val.v
              mine == IF call'.op = "pipeline" THEN pipelines ELSE scales
              new  == IF call'.op = "pipeline" THEN pipelines' ELSE scales'
          IN  /\ call'.val.kind = "value"
              /\ obj /= Undefined
              /\ obj \notin Objects
              /\ new = Append(mine, obj._id)]_vars

\* witness of C8: a second pipeline of the same name was created
C8_Witness ==
  /\ call.op = "pipeline" /\ call.arg.t = "string"
  /\ Len(pipelines) = 2
  /\ lookup(pipelines[1]).type = "Pipeline"
  /\ lookup(pipelines[1]).name = call.arg.s
  /\ lookup(pipelines[2]) = call.val.v
  /\ pipelines[1] /= pipelines[2]

\* C9: pipeline() and scale() return the primitives of the collection in
\* the order of the appends: element i is lookup of the i-th id; a call
\* with a string or an object appends one id, no other call changes the
\* collection, and the ids already there stay where they are.
C9_ListInAppendOrder ==
  [][/\ IsPrefix(pipelines, pipelines') /\ IsPrefix(scales, scales')
     /\ Len(pipelines') - Len(pipelines) =
          (IF call'.op = "pipeline" /\ call'.arg.t \in {"string", "object"}
           THEN 1 ELSE 0)
     /\ Len(scales') - Len(scales) =
          (IF call'.op = "scale" /\ call'.arg.t \in {"string", "object"}
           THEN 1 ELSE 0)
     /\ (IsCollectionCall(call') /\ call'.arg.t = "undefined")
          => LET cache == IF call'.op = "pipeline" THEN pipelines' ELSE scales'
             IN  /\ call'.val.kind = "array"
                 /\ Len(call'.val.l) = Len(cache)
                 /\ \A i \in 1..Len(cache) :
                      call'.val.l[i] = lookupIn(primitives', cache[i])]_vars

\* witness of C9: pipeline() returned two different primitives
C9_Witness ==
  /\ call.op = "pipeline" /\ call.arg.t = "undefined"
  /\ Len(call.val.l) = 2
  /\ call.val.l[1] /= call.val.l[2]
  /\ call.val.l[1] /= Undefined /\ call.val.l[2] /= Undefined

\* C10: right after primitive(id, obj), lookup(id) is obj, the lookup of
\* every other id is what it was, and the call returned the model; lookup
\* of an id that was never stored returns undefined.
C10_StoreLookupRoundTrip ==
  [][/\ call'.op = "primitive"
          => /\ lookupIn(primitives', call'.arg.n) = call'.arg.o
             /\ \A k \in (Ids \cup DOMAIN primitives) \ {call'.arg.n} :
                  lookupIn(primitives', k) = lookup(k)
             /\ call'.val = Value(Model)
     /\ (call'.op = "lookup" /\ call'.arg.n \notin DOMAIN primitives)
          => call'.val = Value(Undefined)
     /\ (call'.op = "lookup" /\ call'.arg.n \in DOMAIN primitives)
          => call'.val = Value(primitives[call'.arg.n])]_vars

\* witness of C10: a primitive was stored over another one, beside a third
C10_Witness ==
  /\ call.op = "primitive"
  /\ call.arg.n /= call.arg.o._id
  /\ Cardinality(DOMAIN primitives) >= 2
  /\ lookup(call.arg.n) = call.arg.o

(***************************************************************************)
(* The export: C11, C12 and C14 under SpecExport, C13 under SpecSignals.   *)
(***************************************************************************)
IsExport(c) == c.op = "export" /\ c.val.kind = "spec"

\* the value export hands on as clean for the clean it was called with
Passed(clean) ==
  IF clean \in {"undefined", "true"} THEN "true"
  ELSE IF clean \in {"false", "null", "0"} THEN "false" ELSE clean

\* the number of data sources of the pipelines before the i-th
RECURSIVE Before(_)
Before(i) ==
  IF i <= 1 THEN 0 ELSE Before(i - 1) + Fragments(lookup(pipelines[i - 1]))

\* C11: the specification export returns has as data the data sources of
\* the pipelines, pipeline after pipeline in the order of the collection and
\* each pipeline's in the order it exports them: none without pipelines; a
\* specification handed over as scene is the object returned, with its data
\* replaced and nothing else changed; export throws only where model.Scene
\* is missing or an id of the collection does not resolve.
C11_DataInPipelineOrder ==
  call.op = "export" =>
    /\ call.val.kind = "spec"
         => LET spec == call.val.spec
                c    == Passed(call.arg.clean)
            IN  /\ spec.data.has
                /\ Len(spec.data.l) = Before(Len(pipelines) + 1)
                /\ \A i \in 1..Len(pipelines) :
                     \A k \in 1..Fragments(lookup(pipelines[i])) :
                       spec.data.l[Before(i) + k] =
                         DataSource("source", pipelines[i], k, c)
                /\ pipelines = <<>> => spec.data.l = <<>>
                /\ call.arg.scene.ref /= 0
                     => spec = [call.arg.scene EXCEPT !.data = spec.data]
    /\ call.val.kind = "throw"
         => \/ call.arg.scene.ref = 0 /\ Scene = Undefined
            \/ ~Resolves(pipelines)

\* witness of C11: a pipeline with one data source and then one with two
\* were exported into a specification of the caller
C11_Witness ==
  /\ IsExport(call) /\ call.arg.scene.ref = 201
  /\ Len(pipelines) = 2
  /\ lookup(pipelines[1]).name = "a" /\ lookup(pipelines[2]).name = "b"
  /\ Len(call.val.spec.data.l) = 3
  /\ call.val.spec.data.l[1].src = pipelines[1]
  /\ call.val.spec.data.l[3] = DataSource("source", pipelines[2], 2, "true")

\* the Scene and every pipeline were exported with a clean that holds
ExportedClean(spec) ==
  /\ spec.of /= 0 => Truthy(spec.clean)
  /\ \A i \in 1..Len(spec.data.l) : Truthy(spec.data.l[i].clean)

\* C12 as stated: for every clean other than false, null and 0 among them,
\* the Scene and every pipeline are exported with clean = true.
C12_CleanUnlessFalse ==
  (IsExport(call) /\ call.arg.clean /= "false") => ExportedClean(call.val.spec)

\* C12, amended: the Scene and every pipeline are exported with true where
\* clean is undefined or true, with false where clean is false, null or 0,
\* and with clean itself where it is another value that holds; export with
\* clean undefined returns what export with clean true returns.
C12_CleanOrUndefined ==
  IsExport(call) =>
    LET spec == call.val.spec
        c    == Passed(call.arg.clean)
    IN  /\ spec.of /= 0 => spec.clean = c
        /\ \A i \in 1..Len(spec.data.l) : spec.data.l[i].clean = c
        /\ call.arg.clean = "undefined"
             => call.val = exportOf(call.arg.scene, "true")

\* witness of C12: export(undefined, null) exported the Scene and a pipeline
\* with clean = false
C12_Witness ==
  /\ IsExport(call) /\ call.arg.clean = "null" /\ call.arg.scene.ref = 0
  /\ call.val.spec.of = Scene._id /\ call.val.spec.clean = "false"
  /\ Len(call.val.spec.data.l) >= 1
  /\ call.val.spec.data.l[1].clean = "false"

Sorted(l) == \A i, j \in 1..Len(l) : i < j => l[i]._idx <= l[j]._idx

IsManipulators(c) == c.op = "manipulators" /\ c.val.kind = "spec"

\* C13 as stated: the signals of the specification manipulators() returns
\* are in ascending order of _idx, whatever signals the Scene handed over.
C13_SignalsSorted ==
  IsManipulators(call) => Sorted(call.val.spec.signals.l)

\* C13, amended: the signals of the specification manipulators() returns
\* are the signals the Scene handed over, as they were, and behind them the
\* definitions of the stash in ascending order of _idx, in whatever order
\* they were stashed; the whole list is in ascending order where the Scene
\* handed over none.
C13_StashSortedBehindScene ==
  IsManipulators(call) =>
    LET pre  == orEmpty(call.arg.signals)
        sig  == call.val.spec.signals.l
        tail == SubSeq(sig, Len(pre) + 1, Len(sig))
    IN  /\ call.val.spec.signals.has
        /\ Len(sig) = Len(pre) + Len(stash)
        /\ SubSeq(sig, 1, Len(pre)) = pre
        /\ {tail[i] : i \in 1..Len(tail)} = {stash[i] : i \in 1..Len(stash)}
        /\ Sorted(tail)
        /\ pre = <<>> => Sorted(sig)

\* witness of C13: three definitions stashed out of order, one of them set
\* since, came out in order
C13_Witness ==
  /\ IsManipulators(call) /\ ~call.arg.signals.has
  /\ Len(stash) = 3
  /\ stash[1]._idx = 3 /\ stash[2]._idx = 1 /\ stash[2].init = "v1"
  /\ call.val.spec.signals.l = <<stash[2], stash[3], stash[1]>>

\* C14 as stated: once init() has set model.Scene, it is the same primitive
\* in every later state, also after another init().
C14_SceneNeverReplaced ==
  [][Scene /= Undefined => Scene' = Scene]_vars

\* C14, amended: model.Scene changes in init() and in no other operation;
\* every init(), the first and each later one, sets it to a Scene that was
\* constructed by this call and is stored in the registry under its id.
C14_SceneSetByInitOnly ==
  [][/\ Scene' /= Scene => call'.op = "init"
     /\ call'.op = "init"
          => /\ Scene' /= Scene
             /\ Scene' \notin Objects
             /\ Scene'.type = "Scene"
             /\ lookupIn(primitives', Scene'._id) = Scene']_vars

\* witness of C14: a second init() made a second Scene, after a pipeline
C14_Witness ==
  /\ call.op = "init"
  /\ Scene._id = 2 /\ lookup(1).type = "Scene" /\ lookup(1) /= Scene
  /\ Len(pipelines) = 1

(***************************************************************************)
(* The frame of the operations: C20, under SpecFrame.                      *)
(***************************************************************************)
\* C20: pipeline() leaves the scales collection as it is and scale() the
\* pipelines collection; export, manipulators, signal, onSignal, offSignal,
\* update and parse, with its callback and the reaction that fulfils or
\* rejects its promise, leave the registry, both collections and model.Scene
\* as they are.
C20_FrameOfOperations ==
  [][/\ call'.op = "pipeline" => scales' = scales
     /\ call'.op = "scale" => pipelines' = pipelines
     /\ call'.op \in {"export", "manipulators", "signal", "onSignal", "offSignal",
                      "update", "parse", "callback", "then"}
          => UNCHANGED <<primitives, pipelines, scales, Scene>>
     /\ parses' /= parses
          => UNCHANGED <<primitives, pipelines, scales, Scene>>]_vars

\* witness of C20: a parse was fulfilled with a pipeline, a scale, a signal
\* and a handler in the model
C20_Witness ==
  /\ call.op = "then" /\ ViewIsLive
  /\ Len(pipelines) = 1 /\ Len(scales) = 1
  /\ Scene /= Undefined /\ Cardinality(DOMAIN primitives) = 2
  /\ Len(stash) = 1 /\ TableSize(listeners) = 1

(***************************************************************************)
(* The failing parse: C5, under SpecParseFair.                             *)
(***************************************************************************)
\* the steps of a failing parse: the callback that carries an error rejects
\* the promise of the executor with it and touches neither the view nor the
\* handlers; the one step that follows for this parse is the reaction that
\* rejects the returned promise with the same error and calls nothing; a
\* rejected promise stays as it is
FailureSteps(p) ==
  /\ (parses[p].state = "pending" /\ parses'[p].state /= "resolved"
        /\ parses'[p] /= parses[p])
       => /\ call'.op = "callback"
          /\ parses'[p] = [parses[p] EXCEPT !.state = "failed", !.err = call'.arg.s]
          /\ parses'[p].view = 0
          /\ UNCHANGED <<view, views, listeners, dragover>>
  /\ parses[p].state = "failed"
       => \/ parses'[p] = parses[p]
          \/ /\ parses'[p] = [parses[p] EXCEPT !.state = "rejected"]
             /\ UNCHANGED <<view, views, listeners, dragover, call>>
  /\ parses[p].state = "rejected" => parses'[p] = parses[p]

\* C5: when the engine calls back with an error, no view is constructed and
\* no handler is registered; the promise parse returned is then rejected with
\* that error by its reaction, which does not call update(), and it stays
\* rejected.
C5_ParseFailureRejects ==
  /\ \A p \in 1..MaxParses :
       (Len(parses) >= p /\ parses[p].state = "failed")
         ~> (Len(parses) >= p /\ parses[p].state = "rejected")
  /\ [][\A p \in 1..Len(parses) : FailureSteps(p)]_vars

\* witness of C5: the second parse failed with err2, after a first view,
\* and its promise was rejected with err2 with no call after the callback
C5_Witness ==
  /\ call.op = "callback" /\ call.arg.s = "err2"
  /\ Len(parses) = 2
  /\ parses[2].state = "rejected" /\ parses[2].err = "err2"
  /\ Len(views) = 1 /\ view = 1

(***************************************************************************)
(* The promise of parse: C15, under SpecParseFair.                         *)
(***************************************************************************)
\* the steps of the promise of the p-th parse: the callback that carries the
\* error of the engine rejects the promise of the executor, and the reaction
\* rejects the returned promise with that error; the callback that constructs
\* the view of the model and registers the handlers on it resolves the
\* promise of the executor, and the one reaction that calls update() fulfils
\* the returned promise
PromiseSteps(p) ==
  /\ (parses[p].state = "pending" /\ parses'[p].state = "failed")
       => /\ call'.op = "callback"
          /\ parses'[p].err = call'.arg.s /\ parses'[p].err \in Errors
  /\ parses'[p].state = "rejected"
       => \/ parses[p] = parses'[p]
          \/ /\ parses[p].state = "failed"
             /\ parses'[p].err = parses[p].err
             /\ call' = call
  /\ parses'[p].state = "resolved"
       => \/ parses[p] = parses'[p]
          \/ /\ parses[p].state = "pending"
             /\ call'.op = "callback"
             /\ Len(views') = Len(views) + 1
             /\ parses'[p].view = Len(views') /\ view' = Len(views')
             /\ views'[view'].destroyed = 0
             /\ views'[view'].handlers[SELECTED] = <<SelectHandler>>
             /\ \A n \in Names : views'[view'].handlers[n] = listeners[n]
  /\ parses'[p].state = "fulfilled"
       => \/ parses[p] = parses'[p]
          \/ /\ parses[p].state = "resolved"
             /\ parses'[p].view = parses[p].view
             /\ call'.op = "then"
  /\ Settled(p) => parses'[p] = parses[p]

\* the reaction of the p-th parse called update() on the view that this
\* parse constructed
UpdatedOwnView(p) ==
  (parses[p].state = "resolved" /\ parses'[p].state = "fulfilled")
    => call'.arg.n = parses[p].view

\* C15 as stated: the promise of a parse is fulfilled after update() was
\* called on the view that this parse constructed, whenever parse is called.
C15_UpdateOnNewView ==
  [][\A p \in 1..Len(parses) : UpdatedOwnView(p)]_vars

\* C15, amended: every parse whose specification reached the engine settles,
\* given that the engine calls back: its promise is rejected with the error
\* of the engine, or it is resolved by the callback that constructed the
\* view and registered the handlers and then fulfilled by one call of
\* update(); and as long as every parse is called after the promises of the
\* earlier ones settled, that update() acts on the view this parse made.
C15_ParseSettles ==
  /\ \A p \in 1..MaxParses :
       (Len(parses) >= p) ~> (Len(parses) >= p /\ Settled(p))
  /\ [][\A p \in 1..Len(parses) :
          /\ PromiseSteps(p)
          /\ Awaited' => UpdatedOwnView(p)]_vars

\* witness of C15: the second of two awaited parses is fulfilled, after a
\* handler was registered and update() was called on the second view
C15_Witness ==
  /\ Awaited
  /\ Len(parses) = 2 /\ parses[1].state = "fulfilled"
  /\ parses[2].state = "fulfilled" /\ parses[2].view = 2
  /\ call.op = "then" /\ call.arg.n = 2
  /\ views[2].handlers["x"] = <<"h1">>

(***************************************************************************)
(* The listener table and the live view: C16 and C19 under SpecView, C17   *)
(* under SpecListeners, C18 under SpecInFlight.                            *)
(***************************************************************************)
\* C16: whenever the view of the model is not destroyed and no parse is in
\* flight, the handlers registered on the view for a signal name, the
\* selection handler aside, are the handlers the listener table holds for
\* that name, each as often as the table holds it.
C16_TableAndViewInStep ==
  (ViewIsLive /\ InFlight = {})
    => \A n \in Names :
         /\ Len(views[view].handlers[n]) = Len(listeners[n])
         /\ \A h \in Handlers \cup Strangers :
              Count(views[view].handlers[n], h) = Count(listeners[n], h)

\* witness of C16: after two parses, with a handler registered on x, the
\* handlers of y were removed from the table and from the second view
C16_Witness ==
  /\ ViewIsLive /\ InFlight = {} /\ view = 2
  /\ call.op = "offSignal" /\ call.arg.name = "y"
  /\ listeners["x"] = <<"h1">> /\ listeners["y"] = <<>>
  /\ views[2].handlers["x"] = <<"h1">> /\ views[2].handlers["y"] = <<>>

\* the handlers of the list l that are not h; none of them where no handler
\* was given
Remaining(l, h) ==
  LET keep(x) == h /= NoHandler /\ x /= h
  IN  SelectSeq(l, keep)

C18_RegisteredInFlightOnce ==
  [][/\ \A p \in Pending :
          parses'[p].state = "resolved"
            => LET made == views'[parses'[p].view]
                   h    == InFlightHandler(p)
               IN  /\ view' = parses'[p].view /\ Len(views') = Len(views) + 1
                   /\ \A n \in Names :
                        /\ made.handlers[n] = listeners[n]
                        /\ Count(made.handlers[n], h) = Count(listeners[n], h)
                        /\ Count(listeners[n], h) = 1
                             => Count(made.handlers[n], h) = 1
     /\ \A p \in (Len(parses) + 1)..MaxParses, n \in Names :
          /\ Count(listeners[n], InFlightHandler(p)) = 0
          /\ \A v \in 1..Len(views) :
               Count(views[v].handlers[n], InFlightHandler(p)) = 0]_vars

\* witness of C18: h1 was registered before the first parse, whose view the
\* second parse destroyed; f2 was registered for x while the callback of the
\* second parse was pending, and the view it constructed holds f2 once,
\* behind h1
C18_Witness ==
  /\ Len(views) = 2 /\ view = 2 /\ views[1].destroyed = 1
  /\ parses[1].view = 1 /\ parses[2].view = 2
  /\ parses[2].state = "fulfilled" /\ call.op = "then"
  /\ listeners["x"] = <<"h1", "f2">>
  /\ views[2].handlers["x"] = <<"h1", "f2">>

\* C19 as stated: whenever no parse is in flight, the model has no view or
\* a view that was not destroyed, and no view was destroyed twice.
C19_ViewNeverDestroyed ==
  /\ InFlight = {} => (view = 0 \/ views[view].destroyed = 0)
  /\ \A v \in 1..Len(views) : views[v].destroyed <= 1

====
